---- MODULE Spec2Model ----
(***************************************************************************)
(* The attestation API client of pkg/cmd/attestation/api/client.go:        *)
(* GetByRepoAndDigest / GetByOwnerAndDigest walk the paginated attestation *)
(* listing with a bounded constant-interval retry per page                 *)
(* (getAttestations), then resolve every record to a bundle in one         *)
(* goroutine per record (fetchBundleFromAttestations, getBundle).          *)
(*                                                                         *)
(* GetTrustDomain asks the metadata endpoint for the trust domain with the *)
(* same bounded retry (getTrustDomain).                                    *)
(*                                                                         *)
(* Collaborators are the environment: githubAPI.RESTWithNext answers a     *)
(* page request with a page and a continuation URL or with an error;       *)
(* githubAPI.REST answers the metadata request by decoding the response    *)
(* into the structure it is given, or with an error;                       *)
(* httpClient.Get answers a GET with an error or with a status and a body. *)
(* Go values are modelled as follows: the empty string and a nil pointer   *)
(* are the empty tuple; an *Attestation is a record whose id stands for    *)
(* the pointer's identity; an error is its chain of messages, outermost    *)
(* first, and the HTTP status it carries.                                  *)
(***************************************************************************)
EXTENDS Integers, Sequences, FiniteSets, TLC

VARIABLES
    entry,         \* the exported or internal function that was called
    httpClient,    \* LiveClient.httpClient: the implementation behind Get
    limit,         \* argument limit
    pages,         \* the server's listing: a sequence of pages of records
    pc,            \* where the call is: "call", "page", "wait", "done"
    url,           \* getAttestations: local url (the cursor)
    attestations,  \* getAttestations: the accumulator
    tries,         \* numTries of the backoff of the current page request
    restLog,       \* history: every RESTWithNext call, [url, res]
    rerr,          \* history: the error of the latest RESTWithNext call
    input,         \* fetchBundleFromAttestations: argument attestations
    fetched,       \* fetchBundleFromAttestations: the output slots
    task,          \* per goroutine: "ready", "retrying", "done"
    gets,          \* history: httpClient.Get calls made by each goroutine
    fails,         \* history: how many of them were not answered with the bundle
    terr,          \* history: the error each goroutine returned
    gerr,          \* errgroup.Group.err: the first error recorded
    ret,           \* what the called function returned
    faults,        \* failing responses the environment may still produce
    meta,          \* the server's metadata: the trust domain it is configured with
    resp,          \* getTrustDomain: resp.Domains.ArtifactAttestations.TrustDomain
    sgBundle,      \* getBundle: local sgBundle
    getLog,        \* history: every httpClient.Get of a direct getBundle call
    pauses,        \* history: the pauses backoff.Retry made between attempts
    rr,            \* remoteResolver: its fields cachedRemotes and remotesError
    results        \* history: what each call of the resolver function returned

vars == <<entry, httpClient, limit, pages, pc, url, attestations, tries, restLog, rerr,
          input, fetched, task, gets, fails, terr, gerr, ret, faults,
          meta, resp, sgBundle, getLog, pauses, rr, results>>

pageVars == <<url, attestations, tries, restLog, rerr>>
fanVars == <<input, fetched, task, gets, fails, terr, gerr>>
metaVars == <<meta, resp>>
bundleVars == <<sgBundle, getLog>>
resolverVars == <<rr, results>>

----------------------------------------------------------------------------
(* Program constants.                                                      *)

maxLimitForFlag == 1000
maxLimitForFetch == 100
\* backoff.WithMaxRetries(bo, 3): retries after the first attempt
maxRetries == 3
\* the interval of the constant backoff, in milliseconds
getAttestationRetryInterval == 200

(* Bounds of the model.                                                    *)

\* pages of the listing
MaxPages == 2
\* records in one page
MaxPageLen == 2
\* records in the whole listing when the records are resolved as well
MaxRecords == 2
\* the largest small limit tried when the records are resolved as well
MaxLimit == 1
\* records of a batch handed directly to fetchBundleFromAttestations
MaxBatch == 2
\* calls of the function remoteResolver.Resolver returns
MaxCalls == 3
\* failing responses in one call that resolves the records as well: as many
\* as exhaust the attempts of one request
MaxFaults == maxRetries + 1

----------------------------------------------------------------------------
(* Values.                                                                 *)

Empty == <<>>

Min(a, b) == IF a < b THEN a ELSE b

RECURSIVE Flatten(_)
Flatten(ss) == IF ss = <<>> THEN <<>> ELSE Head(ss) \o Flatten(Tail(ss))

NoErr == [chain |-> <<>>, status |-> 0]
\* errors.New / fmt.Errorf without %w
NewError(msg) == [chain |-> <<msg>>, status |-> 0]
\* fmt.Errorf("msg: %w", err)
Wrap(msg, err) == [chain |-> <<msg>> \o err.chain, status |-> err.status]
\* api.HTTPError{StatusCode: s}
HTTPError(s) == [chain |-> <<"HTTPError">>, status |-> s]
\* an error of the transport that carries no HTTP status
RequestError == NewError("request error")

ErrNoAttestationsFound == NewError("no attestations found")
ErrLimit == NewError("limit must be greater than 0 and less than or equal to 1000")
ErrNoBundle == NewError("attestation has no bundle or bundle URL")

Contains(err, msg) == \E k \in 1..Len(err.chain) : err.chain[k] = msg

GetAttestationByRepoAndSubjectDigestPath == "repos/%s/attestations/%s"
GetAttestationByOwnerAndSubjectDigestPath == "orgs/%s/attestations/%s"

\* bundle.Bundle: its media type and what it attests
MediaType == "application/vnd.dev.sigstore.bundle.v0.3+json"
Bundle(mediaType, content) == <<"bundle", mediaType, content>>
\* the bundle a record carries inline, and the one the blob store holds
\* under the record's bundle URL
InlineBundle(id) == Bundle(MediaType, <<"inline", id>>)
BundleURLOf(id) == <<"url", id>>
RemoteBundle(u) == Bundle(MediaType, <<"remote", u[2]>>)

\* One Attestation as the server lists it. kind says which fields it sets.
Kinds == {"inline", "url", "both", "neither"}
Attestation(id, kind) ==
    [id |-> id,
     Bundle |-> IF kind \in {"inline", "both"} THEN InlineBundle(id) ELSE Empty,
     BundleURL |-> IF kind \in {"url", "both"} THEN BundleURLOf(id) ELSE Empty]

\* mutant: the goroutine fills in the record it was given
NewAttestationReusesInput(i, b) == [input[i] EXCEPT !.Bundle = b]
\* &Attestation{Bundle: b} allocated by goroutine i
NewAttestation(i, b) == [id |-> <<"fetched", i>>, Bundle |-> b, BundleURL |-> Empty]

Returned(isNil, list, err) == [isNil |-> isNil, list |-> list, err |-> err]
NotReturned == Returned(TRUE, <<>>, NoErr)

----------------------------------------------------------------------------
(* shouldRetry, client.go:233: an api.HTTPError with a 5xx status.         *)

\* mutant: every api.HTTPError is retried, whatever its status
shouldRetryAnyHTTPError(err) == Contains(err, "HTTPError")
\* mutant: every error is retried
shouldRetryAnyError(err) == err # NoErr
shouldRetry(err) ==
    /\ Contains(err, "HTTPError")
    /\ err.status >= 500
    /\ err.status <= 599

\* mutant: the interval doubles with every retry
NextBackOffExponential(numTries) == getAttestationRetryInterval * 2 ^ numTries
\* backoff.NewConstantBackOff(getAttestationRetryInterval), client.go:112, 192
\* and 247: the pause after the attempt that found numTries retries made
NextBackOff(numTries) == getAttestationRetryInterval

\* backoff.Retry sleeps for the interval before its next attempt; kind and
\* id name the operation that is retried
Sleep(kind, id, numTries) ==
    pauses' = pauses \cup {[kind |-> kind, id |-> id, n |-> numTries + 1,
                            d |-> NextBackOff(numTries)]}

\* mutant: one retry too few
BackOffStopsEarly(numTries) == numTries >= maxRetries - 1
\* mutant: one retry too many
BackOffStopsLate(numTries) == numTries > maxRetries
\* backoff.WithMaxRetries: NextBackOff stops once numTries reached the maximum
BackOffStops(numTries) == numTries >= maxRetries

----------------------------------------------------------------------------
(* The environment.                                                        *)

\* statuses of the errors RESTWithNext may return
RESTErrorStatuses == {404, 500, 599}
RESTErrors == {HTTPError(s) : s \in RESTErrorStatuses} \cup {RequestError}

\* how the server's answer to a page request is classed in restLog
Class(err) ==
    IF err = NoErr THEN "ok"
    ELSE IF ~Contains(err, "HTTPError") THEN "conn"
    ELSE IF err.status >= 500 /\ err.status <= 599 THEN "5xx"
    ELSE "4xx"

\* the continuation URL the server sends with page u[3]
NextLink(u) == IF u[3] < Len(pages) THEN <<u[1], u[2], u[3] + 1>> ELSE Empty

\* snappy, protojson and the bundle constructor, by what they accept
SnappyEncode(data) == <<"snappy", data>>
SnappyDecode(body) ==
    IF body # Empty /\ body[1] = "snappy"
    THEN [ok |-> TRUE, data |-> body[2]]
    ELSE [ok |-> FALSE, data |-> Empty]
Marshal(pb) == <<"json", pb>>
Unmarshal(data) ==
    IF data # Empty /\ data[1] = "json"
    THEN [ok |-> TRUE, pb |-> data[2]]
    ELSE [ok |-> FALSE, pb |-> Empty]
ProtoBundle(b) == <<"pb", b[2], b[3]>>
NewBundle(pb) ==
    IF pb[2] = MediaType
    THEN [ok |-> TRUE, bundle |-> Bundle(pb[2], pb[3])]
    ELSE [ok |-> FALSE, bundle |-> Empty]
ReadAll(body) ==
    IF body = <<"unreadable">>
    THEN [ok |-> FALSE, bytes |-> Empty]
    ELSE [ok |-> TRUE, bytes |-> body]

\* the body the blob store serves for a stored bundle
ValidBody(u) == SnappyEncode(Marshal(ProtoBundle(RemoteBundle(u))))
\* bodies a GET may deliver: the stored bundle, a stream that breaks while
\* it is read, bytes that are not snappy, snappy of something that is not
\* JSON, and a message no bundle can be built from
Bodies(u) ==
    {ValidBody(u),
     <<"unreadable">>,
     <<"garbage">>,
     SnappyEncode(<<"text">>),
     SnappyEncode(Marshal(<<"pb", "", <<"remote", u[2]>>>>))}

GetStatuses == {200, 404, 500, 599}
Is5xx(s) == s >= 500 /\ s <= 599
\* what httpClient.Get(u) may return
GetResponses(u) ==
    {[failed |-> TRUE, StatusCode |-> 500, Body |-> Empty]}
    \cup {[failed |-> FALSE, StatusCode |-> s, Body |-> Empty] :
             s \in {t \in GetStatuses : Is5xx(t)}}
    \cup {[failed |-> FALSE, StatusCode |-> s, Body |-> b] :
             s \in {t \in GetStatuses : ~Is5xx(t)}, b \in Bodies(u)}
\* the implementations of httpClient: any HTTP client, and the one of the
\* tests whose every request fails
HttpClients == {"httpClient", "reqFailHttpClient"}
\* what c.httpClient.Get(u) may return
ResponsesOf(client, u) ==
    IF client = "reqFailHttpClient"
    THEN {[failed |-> TRUE, StatusCode |-> 500, Body |-> Empty]}
    ELSE GetResponses(u)
\* a response that is not the stored bundle
IsFault(u, r) == r.failed \/ Is5xx(r.StatusCode) \/ r.Body # ValidBody(u)

----------------------------------------------------------------------------
(* getAttestations, client.go:97-148.                                      *)

\* mutant: zero passes the validation
limitIsValidFromZero(l) == ~(l < 0 \/ l > maxLimitForFlag)
\* client.go:99: the validation of limit
limitIsValid(l) == ~(l <= 0 \/ l > maxLimitForFlag)
\* mutant: the limit is sent as it is
perPageOfUncapped(l) == l
\* client.go:98-105: the page size asked for
perPageOf(l) == IF l > maxLimitForFetch THEN maxLimitForFetch ELSE l
PathOf(e) ==
    IF e = "GetByRepoAndDigest"
    THEN GetAttestationByRepoAndSubjectDigestPath
    ELSE GetAttestationByOwnerAndSubjectDigestPath
\* fmt.Sprintf("%s?per_page=%d", url, perPage); the third field is the page
\* the URL asks for, 1 when it carries no cursor
FirstURL(e, l) == <<PathOf(e), perPageOf(l), 1>>

\* mutant: the loop goes on while there is a continuation URL
keepFetchingIgnoresLimit(u, acc, l) == u # Empty
\* the loop condition, client.go:115
keepFetching(u, acc, l) == u # Empty /\ Len(acc) < l

\* mutant: the cursor is not moved
nextCursorKeepsOld(old, newURL) == old
\* client.go:127: url = newURL
nextCursor(old, newURL) == newURL
\* mutant: the page is appended twice
appendPageTwice(acc, page) == (acc \o page) \o page
\* mutant: the page is put in front of the accumulator
appendPageInFront(acc, page) == page \o acc
\* client.go:128: the page is appended to the accumulator
appendPage(acc, page) == acc \o page

\* mutant: the error of the page request is wrapped with a description
pageFailureWrapped(acc, err) ==
    Returned(TRUE, <<>>, Wrap("failed to fetch attestations", err))
\* mutant: what was accumulated is returned when a later page fails
pageFailureKeepsPages(acc, err) ==
    IF acc = <<>> THEN Returned(TRUE, <<>>, err) ELSE Returned(FALSE, acc, NoErr)
\* client.go:134-136: the page request ended in err
pageFailure(acc, err) == Returned(TRUE, <<>>, err)

\* mutant: an empty accumulator is returned as a list
afterLoopNoSentinel(acc, l) ==
    IF Len(acc) > l THEN Returned(FALSE, SubSeq(acc, 1, l), NoErr)
    ELSE Returned(FALSE, acc, NoErr)
\* mutant: the accumulator is not cut to limit
afterLoopUncut(acc, l) ==
    IF Len(acc) = 0 THEN Returned(TRUE, <<>>, ErrNoAttestationsFound)
    ELSE Returned(FALSE, acc, NoErr)
\* client.go:139-147: what getAttestations returns after the loop
afterLoop(acc, l) ==
    IF Len(acc) = 0 THEN Returned(TRUE, <<>>, ErrNoAttestationsFound)
    ELSE IF Len(acc) > l THEN Returned(FALSE, SubSeq(acc, 1, l), NoErr)
    ELSE Returned(FALSE, acc, NoErr)

\* client.go:151: make([]*Attestation, len(attestations))
makeFetched(n) == [i \in 1..n |-> Empty]

\* fetchBundleFromAttestations, client.go:151-153: the output slots are
\* allocated and one goroutine per record is started
StartFanOut(list) ==
    /\ pc' = "wait"
    /\ input' = list
    /\ fetched' = makeFetched(Len(list))
    /\ task' = [i \in 1..Len(list) |-> "ready"]
    /\ gets' = [i \in 1..Len(list) |-> 0]
    /\ fails' = [i \in 1..Len(list) |-> 0]
    /\ terr' = [i \in 1..Len(list) |-> NoErr]
    /\ gerr' = NoErr

\* getByURL, client.go:78-83: an error of getAttestations is returned as it
\* is, a list goes to fetchBundleFromAttestations
getByURLAfterList(r) ==
    IF r.err # NoErr
    THEN /\ pc' = "done"
         /\ ret' = Returned(TRUE, <<>>, r.err)
         /\ UNCHANGED fanVars
    ELSE /\ StartFanOut(r.list)
         /\ UNCHANGED ret

\* mutant: the retries made for the pages before count for the next page
numTriesAtRetryKept(numTries) == numTries
\* client.go:116 and 131: backoff.Retry starts on a backoff.WithMaxRetries
\* made for this page request, whose numTries is zero
numTriesAtRetry(numTries) == 0
\* the head of the loop with cursor u and accumulator acc
LoopHead(u, acc) ==
    /\ url' = u
    /\ attestations' = acc
    /\ tries' = numTriesAtRetry(tries)
    /\ IF keepFetching(u, acc, limit)
       THEN /\ pc' = "page"
            /\ UNCHANGED <<fanVars, ret>>
       ELSE getByURLAfterList(afterLoop(acc, limit))

\* GetByRepoAndDigest / GetByOwnerAndDigest up to the first page request
GetByDigest ==
    /\ pc = "call"
    /\ entry \in {"GetByRepoAndDigest", "GetByOwnerAndDigest"}
    /\ IF ~limitIsValid(limit)
       THEN /\ pc' = "done"
            /\ ret' = Returned(TRUE, <<>>, ErrLimit)
            /\ UNCHANGED <<pageVars, fanVars>>
       ELSE /\ LoopHead(FirstURL(entry, limit), <<>>)
            /\ UNCHANGED <<restLog, rerr>>
    /\ UNCHANGED <<entry, httpClient, limit, pages, faults, metaVars, bundleVars,
                   pauses, resolverVars>>

\* one attempt of the page request inside backoff.Retry, client.go:116-136
PageRequest ==
    /\ pc = "page"
    /\ \/ \* RESTWithNext delivers the page and its continuation URL
          /\ restLog' = Append(restLog, [url |-> url, res |-> "ok"])
          /\ rerr' = NoErr
          /\ LoopHead(nextCursor(url, NextLink(url)),
                      appendPage(attestations, pages[url[3]]))
          /\ UNCHANGED <<faults, pauses>>
       \/ \* RESTWithNext fails
          \E e \in RESTErrors :
            /\ faults > 0
            /\ faults' = faults - 1
            /\ restLog' = Append(restLog, [url |-> url, res |-> Class(e)])
            /\ rerr' = e
            /\ IF shouldRetry(e) /\ ~BackOffStops(tries)
               THEN /\ tries' = tries + 1
                    /\ Sleep("page", url[3], tries)
                    /\ UNCHANGED <<pc, url, attestations, fanVars, ret>>
               ELSE /\ getByURLAfterList(pageFailure(attestations, e))
                    /\ UNCHANGED <<url, attestations, tries, pauses>>
    /\ UNCHANGED <<entry, httpClient, limit, pages, metaVars, bundleVars, resolverVars>>

----------------------------------------------------------------------------
(* fetchBundleFromAttestations and getBundle, client.go:150-231.           *)

\* one attempt of getBundle, client.go:193-228, on the response r
getBundleAttempt(u, r) ==
    LET read == ReadAll(r.Body)
        dec == SnappyDecode(read.bytes)
        msg == Unmarshal(dec.data)
        sg == NewBundle(msg.pb)
        out(kind, b, err) == [kind |-> kind, bundle |-> b, err |-> err]
    IN  IF r.failed
        THEN out("retry", Empty,
                 Wrap("request to fetch bundle from URL failed", RequestError))
        ELSE IF r.StatusCode >= 500 /\ r.StatusCode <= 599
        THEN out("retry", Empty,
                 [chain |-> <<"attestation bundle returned status code">>,
                  status |-> r.StatusCode])
        ELSE IF ~read.ok
        THEN out("retry", Empty,
                 Wrap("failed to read blob storage response body",
                      NewError("read error")))
        ELSE IF ~dec.ok
        THEN out("permanent", Empty,
                 Wrap("failed to decompress with snappy",
                      NewError("snappy: corrupt input")))
        ELSE IF ~msg.ok
        THEN out("permanent", Empty,
                 Wrap("failed to unmarshal to bundle", NewError("proto: syntax error")))
        ELSE IF ~sg.ok
        THEN out("permanent", Empty,
                 Wrap("failed to create new bundle", NewError("unsupported media type")))
        ELSE out("ok", sg.bundle, NoErr)

\* mutant: the group keeps the error of the goroutine that failed last
TaskReturnsLastError(i, err) ==
    /\ task' = [task EXCEPT ![i] = "done"]
    /\ terr' = [terr EXCEPT ![i] = err]
    /\ gerr' = IF err # NoErr THEN err ELSE gerr
\* the goroutine of record i returns err: errgroup keeps the first error
TaskReturns(i, err) ==
    /\ task' = [task EXCEPT ![i] = "done"]
    /\ terr' = [terr EXCEPT ![i] = err]
    /\ gerr' = IF err # NoErr /\ gerr = NoErr THEN err ELSE gerr

\* mutant: a goroutine writes the slot of the one before it
slotOfBefore(i) == IF i > 1 THEN i - 1 ELSE i
\* mutant: every goroutine writes the first slot
slotOfFirst(i) == 1
\* the slot goroutine i writes, client.go:162 and 173
slotOf(i) == i

\* mutant: an inline bundle is used whenever there is one
strategyInlineFirst(a) ==
    IF a.Bundle = Empty /\ a.BundleURL = Empty THEN "fail"
    ELSE IF a.Bundle # Empty THEN "inline"
    ELSE "fetch"
\* mutant: a record without bundle and bundle URL is not rejected
strategyNoCheck(a) == IF a.BundleURL = Empty THEN "inline" ELSE "fetch"
\* client.go:155-169: what the goroutine does with record a
strategy(a) ==
    IF a.Bundle = Empty /\ a.BundleURL = Empty THEN "fail"
    ELSE IF a.BundleURL = Empty THEN "inline"
    ELSE "fetch"

\* mutant: the slots are returned together with the error
fanOutResultPartial(err, slots) == Returned(FALSE, slots, err)
\* client.go:181-185: what fetchBundleFromAttestations returns after g.Wait()
fanOutResult(err, slots) ==
    IF err # NoErr
    THEN Returned(TRUE, <<>>, err)
    ELSE Returned(FALSE, slots, NoErr)

\* mutant: an error marked permanent is retried like any other
retryAgainOnAnyError(o, numTries) == o.kind # "ok" /\ ~BackOffStops(numTries)
\* mutant: only a 5xx status is retried, as shouldRetry does for the API requests
retryAgainOn5xxOnly(o, numTries) ==
    o.kind = "retry" /\ Is5xx(o.err.status) /\ ~BackOffStops(numTries)
\* backoff.Retry in getBundle, client.go:193-228, after an attempt that ended
\* in o: an error that is not backoff.Permanent is retried while the backoff
\* has retries left
retryAgain(o, numTries) == o.kind = "retry" /\ ~BackOffStops(numTries)

\* mutant: the goroutine takes the inline bundle out of its record
inputAfterTaskTakesBundle(list, i) == [list EXCEPT ![i].Bundle = Empty]
\* client.go:154-178: the goroutine of record i reads a.Bundle and
\* a.BundleURL and assigns neither, nor the slice it ranges over
inputAfterTask(list, i) == list
\* the goroutine of record i, up to its next GET or to its end
TaskStep(i) ==
    /\ pc = "wait"
    /\ task[i] # "done"
    /\ LET a == input[i] IN
       IF task[i] = "ready" /\ strategy(a) = "fail"
       THEN /\ TaskReturns(i, ErrNoBundle)
            /\ UNCHANGED <<fetched, gets, fails, faults, pauses>>
       ELSE IF task[i] = "ready" /\ strategy(a) = "inline"
       THEN /\ fetched' = [fetched EXCEPT ![slotOf(i)] = NewAttestation(i, a.Bundle)]
            /\ TaskReturns(i, NoErr)
            /\ UNCHANGED <<gets, fails, faults, pauses>>
       ELSE \E r \in ResponsesOf(httpClient, a.BundleURL) :
            LET o == getBundleAttempt(a.BundleURL, r) IN
            /\ IsFault(a.BundleURL, r) => faults > 0
            /\ faults' = IF IsFault(a.BundleURL, r) THEN faults - 1 ELSE faults
            /\ gets' = [gets EXCEPT ![i] = @ + 1]
            /\ fails' = IF IsFault(a.BundleURL, r)
                        THEN [fails EXCEPT ![i] = @ + 1]
                        ELSE fails
            /\ IF o.kind = "ok"
               THEN /\ fetched' = [fetched EXCEPT ![slotOf(i)] = NewAttestation(i, o.bundle)]
                    /\ TaskReturns(i, NoErr)
                    /\ UNCHANGED pauses
               ELSE IF retryAgain(o, gets[i])
               THEN /\ task' = [task EXCEPT ![i] = "retrying"]
                    /\ Sleep("task", i, gets[i])
                    /\ UNCHANGED <<fetched, terr, gerr>>
               ELSE /\ TaskReturns(i, Wrap("failed to fetch bundle with URL", o.err))
                    /\ UNCHANGED <<fetched, pauses>>
    /\ input' = inputAfterTask(input, i)
    /\ UNCHANGED <<entry, httpClient, limit, pages, pc, pageVars, ret, metaVars,
                   bundleVars, resolverVars>>

\* mutant: the wait ends as soon as an error is recorded
GroupWaitOnFirstError ==
    /\ pc = "wait"
    /\ \/ \A i \in 1..Len(input) : task[i] = "done"
       \/ gerr # NoErr
    /\ LET r == fanOutResult(gerr, fetched)
       IN ret' = IF entry = "fetchBundleFromAttestations" \/ r.err = NoErr
                 THEN r
                 ELSE Returned(TRUE, <<>>, Wrap("failed to fetch bundle with URL", r.err))
    /\ pc' = "done"
    /\ UNCHANGED <<entry, httpClient, limit, pages, pageVars, fanVars, faults, metaVars,
                   bundleVars, pauses, resolverVars>>
\* mutant: after the goroutines the loop over the pages is taken up again
GroupWaitRefetches ==
    /\ pc = "wait"
    /\ \A i \in 1..Len(input) : task[i] = "done"
    /\ IF url # Empty /\ gerr = NoErr
       THEN /\ pc' = "page"
            /\ UNCHANGED ret
       ELSE /\ pc' = "done"
            /\ ret' = fanOutResult(gerr, fetched)
    /\ UNCHANGED <<entry, httpClient, limit, pages, pageVars, fanVars, faults, metaVars,
                   bundleVars, pauses, resolverVars>>
\* g.Wait() returns once every goroutine has returned, client.go:181-185;
\* getByURL wraps an error of the fan-out, client.go:84-88
GroupWait ==
    /\ pc = "wait"
    /\ \A i \in 1..Len(input) : task[i] = "done"
    /\ LET r == fanOutResult(gerr, fetched)
       IN ret' = IF entry = "fetchBundleFromAttestations" \/ r.err = NoErr
                 THEN r
                 ELSE Returned(TRUE, <<>>, Wrap("failed to fetch bundle with URL", r.err))
    /\ pc' = "done"
    /\ UNCHANGED <<entry, httpClient, limit, pages, pageVars, fanVars, faults, metaVars,
                   bundleVars, pauses, resolverVars>>

----------------------------------------------------------------------------
(* getBundle called directly, client.go:188-231.                           *)

\* how a response to a GET is classed in getLog
GetClass(u, r) ==
    IF r.failed THEN "conn"
    ELSE IF Is5xx(r.StatusCode) THEN "5xx"
    ELSE IF r.Body = ValidBody(u) THEN "bundle"
    ELSE IF ~ReadAll(r.Body).ok THEN "unreadable"
    ELSE "invalid"

\* client.go:194-203: what has become of the body of the response r when
\* the attempt returns. A failed Get delivers no response; the deferred
\* resp.Body.Close() is registered after the check of the status, so the
\* attempt that returns at client.go:200 leaves the body open
bodyAfterAttempt(r) ==
    IF r.failed THEN "none"
    ELSE IF r.StatusCode >= 500 /\ r.StatusCode <= 599 THEN "open"
    ELSE "closed"
\* mutant: the bundle is dropped on the way out
getBundleResultNil(sg, err) == [bundle |-> Empty, err |-> err]
\* client.go:230: return sgBundle, err
getBundleResult(sg, err) == [bundle |-> sg, err |-> err]

\* one attempt of getBundle(url) inside backoff.Retry
GetBundleRequest ==
    /\ pc = "get"
    /\ \E r \in ResponsesOf(httpClient, url) :
         LET o == getBundleAttempt(url, r)
             \* client.go:222 assigns sgBundle, also when NewBundle fails
             sg == IF o.kind = "ok" \/ Contains(o.err, "failed to create new bundle")
                   THEN o.bundle
                   ELSE sgBundle
         IN  /\ IsFault(url, r) => faults > 0
             /\ faults' = IF IsFault(url, r) THEN faults - 1 ELSE faults
             /\ getLog' = Append(getLog, [url |-> url, res |-> GetClass(url, r),
                                          status |-> r.StatusCode,
                                          body |-> bodyAfterAttempt(r)])
             /\ sgBundle' = sg
             /\ IF retryAgain(o, tries)
                THEN /\ tries' = tries + 1
                     /\ Sleep("get", 0, tries)
                     /\ UNCHANGED <<pc, ret>>
                ELSE /\ pc' = "done"
                     /\ ret' = getBundleResult(sg, o.err)
                     /\ UNCHANGED <<tries, pauses>>
    /\ UNCHANGED <<entry, httpClient, limit, pages, url, attestations, restLog, rerr,
                   fanVars, metaVars, resolverVars>>

----------------------------------------------------------------------------
(* GetTrustDomain and getTrustDomain, client.go:93-95 and 244-266.         *)

\* the path of the metadata endpoint
MetaPath == "meta"

\* MetaResponse as the server sends it: the trust domain may be absent
MetaResponse(present, domain) == [present |-> present, TrustDomain |-> domain]
NoMeta == MetaResponse(FALSE, Empty)
\* the configurations of the server: no trust domain, an empty one, a name
TrustDomainNames == {<<"foo">>, <<"bar">>, <<"baz">>}
MetaResponses ==
    {NoMeta, MetaResponse(TRUE, Empty)}
    \cup {MetaResponse(TRUE, d) : d \in TrustDomainNames}

\* githubAPI.REST decodes the response into resp: a field the response does
\* not carry keeps the value it had
DecodeMeta(old, m) == IF m.present THEN m.TrustDomain ELSE old
\* what a failed REST call may leave in resp: an HTTP error is returned before
\* anything is decoded, any other failure may have decoded a part
LeftInResp(old, err) ==
    IF Contains(err, "HTTPError") THEN {old} ELSE {old, <<"partial">>}

\* mutant: an empty trust domain is reported as an error
trustDomainResultRejectsEmpty(err, domain) ==
    IF err # NoErr THEN [domain |-> Empty, err |-> err]
    ELSE IF domain = Empty
    THEN [domain |-> Empty, err |-> NewError("no trust domain")]
    ELSE [domain |-> domain, err |-> NoErr]
\* mutant: what is in resp is returned together with the error
trustDomainResultKeepsValue(err, domain) == [domain |-> domain, err |-> err]
\* client.go:261-265: what getTrustDomain returns after backoff.Retry
trustDomainResult(err, domain) ==
    IF err # NoErr
    THEN [domain |-> Empty, err |-> err]
    ELSE [domain |-> domain, err |-> NoErr]

\* one attempt of the metadata request inside backoff.Retry, client.go:248-259
TrustDomainRequest ==
    /\ pc = "meta"
    /\ \/ \* REST succeeds and has decoded the response
          /\ restLog' = Append(restLog, [url |-> url, res |-> "ok"])
          /\ rerr' = NoErr
          /\ resp' = DecodeMeta(resp, meta)
          /\ pc' = "done"
          /\ ret' = trustDomainResult(NoErr, DecodeMeta(resp, meta))
          /\ UNCHANGED <<tries, faults, pauses>>
       \/ \* REST fails
          \E e \in RESTErrors : \E v \in LeftInResp(resp, e) :
            /\ faults > 0
            /\ faults' = faults - 1
            /\ restLog' = Append(restLog, [url |-> url, res |-> Class(e)])
            /\ rerr' = e
            /\ resp' = v
            /\ IF shouldRetry(e) /\ ~BackOffStops(tries)
               THEN /\ tries' = tries + 1
                    /\ Sleep("meta", 0, tries)
                    /\ UNCHANGED <<pc, ret>>
               ELSE /\ pc' = "done"
                    /\ ret' = trustDomainResult(e, v)
                    /\ UNCHANGED <<tries, pauses>>
    /\ UNCHANGED <<entry, httpClient, limit, pages, url, attestations, fanVars, meta,
                   bundleVars, resolverVars>>

----------------------------------------------------------------------------
(* remoteResolver.Resolver, pkg/cmd/factory/remote_resolver.go.            *)

GH_HOST == "GH_HOST"

\* a slice of remotes: nil, or a list that may be empty
NilRemotes == [isNil |-> TRUE, list |-> <<>>]
NonNilRemotes(list) == [isNil |-> FALSE, list |-> list]
Remote(name, host) == [Name |-> name, Host |-> host]

\* &remoteResolver{...}: nothing resolved yet
NewResolver == [cachedRemotes |-> NilRemotes, remotesError |-> NoErr]

\* what rr.readRemotes() may return: an error, or the remotes of the
\* repository
GitRemoteSets ==
    {<<>>,
     <<Remote("origin", "github.com")>>,
     <<Remote("origin", "example.com")>>,
     <<Remote("origin", "example.com"), Remote("upstream", "github.com")>>}
ReadRemotesResults ==
    {[failed |-> TRUE, err |-> NewError("error to be cached"), remotes |-> <<>>]}
    \cup {[failed |-> FALSE, err |-> NoErr, remotes |-> g] : g \in GitRemoteSets}

\* what rr.getConfig() may return: an error, or a configuration with its
\* authenticated hosts, its default host and where that comes from
GetConfigResults ==
    {[failed |-> TRUE, err |-> NewError("config error"), hosts |-> {},
      defaultHost |-> "github.com", src |-> "default", hasEnvToken |-> FALSE]}
    \cup {[failed |-> FALSE, err |-> NoErr, hosts |-> h,
           defaultHost |-> d[1], src |-> d[2], hasEnvToken |-> t] :
             h \in {{}, {"github.com"}, {"example.com"}},
             d \in {<<"github.com", "default">>, <<"example.com", GH_HOST>>,
                    <<"example.com", "hosts.yml">>},
             t \in BOOLEAN}

isHostEnv(src) == src = GH_HOST

\* context.TranslateRemotes with a translator that leaves the URLs alone
TranslateRemotes(gitRemotes) == gitRemotes
\* sort.Sort(resolvedRemotes): upstream, github, origin, then the others
remoteNameSortScore(name) ==
    IF name = "upstream" THEN 3
    ELSE IF name = "github" THEN 2
    ELSE IF name = "origin" THEN 1
    ELSE 0
RECURSIVE InsertRemote(_, _)
InsertRemote(r, sorted) ==
    IF sorted = <<>> THEN <<r>>
    ELSE IF remoteNameSortScore(r.Name) > remoteNameSortScore(Head(sorted).Name)
    THEN <<r>> \o sorted
    ELSE <<Head(sorted)>> \o InsertRemote(r, Tail(sorted))
RECURSIVE SortRemotes(_)
SortRemotes(remotes) ==
    IF remotes = <<>> THEN <<>>
    ELSE InsertRemote(Head(remotes), SortRemotes(Tail(remotes)))
\* Remotes.FilterByHosts: the remotes whose host is one of hosts
FilterByHosts(remotes, hosts) == SelectSeq(remotes, LAMBDA r : r.Host \in hosts)

\* mutant: only resolved remotes count as cached
cacheHitRemotesOnly(r) == ~r.cachedRemotes.isNil
\* the guard of the resolver function, part_001:76
cacheHit(r) == ~r.cachedRemotes.isNil \/ r.remotesError # NoErr

\* one call of the resolver function on the resolver r, when readRemotes
\* would return g and getConfig would return c: the resolver afterwards, what
\* the call returns, and whether it called readRemotes
ResolverFunc(r, g, c) ==
    LET out(r2, remotes, err, read) ==
            [rr |-> r2, remotes |-> remotes, err |-> err, read |-> read]
        resolvedRemotes == SortRemotes(TranslateRemotes(g.remotes))
        hosts == c.hosts \cup {c.defaultHost, "github.com"}
        byHosts == FilterByHosts(resolvedRemotes, hosts)
        filteredRemotes == FilterByHosts(byHosts, {c.defaultHost})
        cached ==
            IF c.src # "default" /\ (isHostEnv(c.src) \/ Len(filteredRemotes) > 0)
            THEN filteredRemotes
            ELSE byHosts
        fail(r2, msg) ==
            out([r2 EXCEPT !.remotesError = NewError(msg)], NilRemotes,
                NewError(msg), TRUE)
        withCache == [r EXCEPT !.cachedRemotes = NonNilRemotes(cached)]
    IN  IF cacheHit(r)
        THEN out(r, r.cachedRemotes, r.remotesError, FALSE)
        ELSE IF g.failed
        THEN out([r EXCEPT !.remotesError = g.err], NilRemotes, g.err, TRUE)
        ELSE IF Len(g.remotes) = 0
        THEN fail(r, "no git remotes found")
        ELSE IF c.failed
        THEN out(r, NilRemotes, c.err, TRUE)
        ELSE IF c.hosts = {}
        THEN out(r, NilRemotes, NewError("could not find any host configurations"), TRUE)
        ELSE IF Len(cached) = 0
        THEN IF isHostEnv(c.src)
             THEN fail(withCache, "none of the git remotes correspond to GH_HOST")
             ELSE IF c.hasEnvToken
             THEN fail(withCache, "set the GH_HOST environment variable")
             ELSE fail(withCache, "none of the git remotes point to a known GitHub host")
        ELSE out(withCache, NonNilRemotes(cached), NoErr, TRUE)

\* a call of the function Resolver returned, in whatever state the
\* repository and the configuration are now
ResolverCall ==
    /\ entry = "Resolver"
    /\ Len(results) < MaxCalls
    /\ \E g \in ReadRemotesResults, c \in GetConfigResults :
         LET o == ResolverFunc(rr, g, c) IN
         /\ rr' = o.rr
         /\ results' = Append(results, [remotes |-> o.remotes, err |-> o.err,
                                        read |-> o.read, git |-> g])
    /\ UNCHANGED <<entry, httpClient, limit, pages, pc, pageVars, fanVars, ret,
                   faults, metaVars, bundleVars, pauses>>

----------------------------------------------------------------------------
(* Specifications.                                                         *)

\* the limits tried: around zero, small ones, and around the two constants
Limits ==
    (-1..(MaxPageLen + 1))
    \cup {maxLimitForFetch, maxLimitForFetch + 1, maxLimitForFlag, maxLimitForFlag + 1}
\* fewer limits for the calls that resolve the records as well
FewLimits == (-1..MaxLimit) \cup {maxLimitForFlag, maxLimitForFlag + 1}

\* the shapes of a listing: how many records each page holds
RECURSIVE Sum(_)
Sum(s) == IF s = <<>> THEN 0 ELSE Head(s) + Sum(Tail(s))
Shapes == UNION {[1..n -> 0..MaxPageLen] : n \in 1..MaxPages}
SmallShapes == {s \in Shapes : Sum(s) <= MaxRecords}

\* the listing of the given shape whose records are all of one kind
Listing(shape, kind) ==
    [k \in 1..Len(shape) |->
        [j \in 1..shape[k] |-> Attestation(<<"page", k, j>>, kind)]]

NoFanOut ==
    /\ input = <<>> /\ fetched = <<>> /\ task = <<>>
    /\ gets = <<>> /\ fails = <<>> /\ terr = <<>> /\ gerr = NoErr
\* no call of GetTrustDomain and no direct call of getBundle
NoTrustDomain == meta = NoMeta /\ resp = Empty
NoGetBundle == sgBundle = Empty /\ getLog = <<>>
\* no pause was made yet
NoPause == pauses = {}
\* a remoteResolver as it is constructed, and no call of its function
NoResolver == rr = NewResolver /\ results = <<>>

\* a call of GetByRepoAndDigest or GetByOwnerAndDigest
Init ==
    /\ entry \in {"GetByRepoAndDigest", "GetByOwnerAndDigest"}
    /\ httpClient = "httpClient"
    /\ limit \in FewLimits
    /\ \E s \in SmallShapes, kind \in Kinds : pages = Listing(s, kind)
    /\ pc = "call"
    /\ url = Empty /\ attestations = <<>> /\ tries = 0
    /\ restLog = <<>> /\ rerr = NoErr
    /\ NoFanOut
    /\ ret = NotReturned
    /\ faults = MaxFaults
    /\ NoTrustDomain /\ NoGetBundle /\ NoPause /\ NoResolver

Next ==
    \/ GetByDigest
    \/ PageRequest
    \/ \E i \in 1..Len(input) : TaskStep(i)
    \/ GroupWait

Spec == Init /\ [][Next]_vars

\* the same call followed up to the return of getAttestations: every limit,
\* every shape of the listing, and no bound on the failing responses
InitPages ==
    /\ entry \in {"GetByRepoAndDigest", "GetByOwnerAndDigest"}
    /\ httpClient = "httpClient"
    /\ limit \in Limits
    /\ \E s \in Shapes : pages = Listing(s, "both")
    /\ pc = "call"
    /\ url = Empty /\ attestations = <<>> /\ tries = 0
    /\ restLog = <<>> /\ rerr = NoErr
    /\ NoFanOut
    /\ ret = NotReturned
    /\ faults = (maxRetries + 1) * MaxPages
    /\ NoTrustDomain /\ NoGetBundle /\ NoPause /\ NoResolver

NextPages ==
    \/ GetByDigest
    \/ PageRequest

SpecPages == InitPages /\ [][NextPages]_vars

\* the batches handed to fetchBundleFromAttestations: every mix of kinds
Batches ==
    UNION {[1..n -> Kinds] : n \in 0..MaxBatch}

\* a direct call of fetchBundleFromAttestations on a client whose
\* httpClient is the given one
BatchCall(client) ==
    /\ entry = "fetchBundleFromAttestations"
    /\ httpClient = client
    /\ limit = 0 /\ pages = <<>>
    /\ url = Empty /\ attestations = <<>> /\ tries = 0
    /\ restLog = <<>> /\ rerr = NoErr
    /\ pc = "wait"
    /\ \E b \in Batches :
         /\ input = [i \in 1..Len(b) |-> Attestation(<<"arg", i>>, b[i])]
         /\ fetched = makeFetched(Len(b))
         /\ task = [i \in 1..Len(b) |-> "ready"]
         /\ gets = [i \in 1..Len(b) |-> 0]
         /\ fails = [i \in 1..Len(b) |-> 0]
         /\ terr = [i \in 1..Len(b) |-> NoErr]
    /\ gerr = NoErr
    /\ ret = NotReturned
    /\ faults = (maxRetries + 1) * MaxBatch
    /\ NoTrustDomain /\ NoGetBundle /\ NoPause /\ NoResolver

InitBundles == BatchCall("httpClient")

NextBundles ==
    \/ \E i \in 1..Len(input) : TaskStep(i)
    \/ GroupWait

SpecBundles == InitBundles /\ [][NextBundles]_vars

\* the bundle URLs getBundle is called with
BundleURLs == {BundleURLOf(<<"arg", i>>) : i \in 1..MaxBatch}

\* a direct call of getBundle on a client whose httpClient is the given one
GetBundleCall(client) ==
    /\ entry = "getBundle"
    /\ httpClient = client
    /\ limit = 0 /\ pages = <<>>
    /\ url \in BundleURLs
    /\ attestations = <<>> /\ tries = 0
    /\ restLog = <<>> /\ rerr = NoErr
    /\ pc = "get"
    /\ NoFanOut
    /\ ret = NotReturned
    /\ faults = maxRetries + 1
    /\ NoTrustDomain /\ NoGetBundle /\ NoPause /\ NoResolver

InitGetBundle == GetBundleCall("httpClient")

NextGetBundle == GetBundleRequest

SpecGetBundle == InitGetBundle /\ [][NextGetBundle]_vars

\* getBundle called directly or by the goroutines of a batch
InitFetch == \E client \in HttpClients : GetBundleCall(client) \/ BatchCall(client)

NextFetch ==
    \/ GetBundleRequest
    \/ \E i \in 1..Len(input) : TaskStep(i)
    \/ GroupWait

SpecFetch == InitFetch /\ [][NextFetch]_vars

\* a call of GetTrustDomain
InitTrustDomain ==
    /\ entry = "GetTrustDomain"
    /\ httpClient = "httpClient"
    /\ limit = 0 /\ pages = <<>>
    /\ url = <<MetaPath>>
    /\ attestations = <<>> /\ tries = 0
    /\ restLog = <<>> /\ rerr = NoErr
    /\ pc = "meta"
    /\ NoFanOut
    /\ ret = NotReturned
    /\ faults = maxRetries + 1
    /\ meta \in MetaResponses /\ resp = Empty
    /\ NoGetBundle /\ NoPause /\ NoResolver

NextTrustDomain == TrustDomainRequest

SpecTrustDomain == InitTrustDomain /\ [][NextTrustDomain]_vars

\* the requests to the API: the pages of a listing or the metadata
InitRequests == InitPages \/ InitTrustDomain

NextRequests ==
    \/ GetByDigest
    \/ PageRequest
    \/ TrustDomainRequest

SpecRequests == InitRequests /\ [][NextRequests]_vars

\* every operation that is retried: the page requests of a listing, the
\* metadata request, getBundle called directly and getBundle called by the
\* goroutines of a batch
InitRetrying == InitPages \/ InitTrustDomain \/ InitGetBundle \/ InitBundles

\* the listing is followed up to the return of getAttestations, as in SpecPages
NextRetrying ==
    \/ GetByDigest
    \/ PageRequest
    \/ TrustDomainRequest
    \/ GetBundleRequest
    \/ /\ entry = "fetchBundleFromAttestations"
       /\ \E i \in 1..Len(input) : TaskStep(i)
    \/ GroupWait

SpecRetrying == InitRetrying /\ [][NextRetrying]_vars
\* a call of any of the three exported functions, with no bound on the
\* failing responses: every request may fail at every attempt
InitLive ==
    \/ /\ entry \in {"GetByRepoAndDigest", "GetByOwnerAndDigest"}
       /\ httpClient = "httpClient"
       /\ limit \in FewLimits
       /\ \E s \in SmallShapes, kind \in Kinds : pages = Listing(s, kind)
       /\ pc = "call"
       /\ url = Empty /\ attestations = <<>> /\ tries = 0
       /\ restLog = <<>> /\ rerr = NoErr
       /\ NoFanOut
       /\ ret = NotReturned
       /\ faults = (maxRetries + 1) * (MaxPages + MaxRecords)
       /\ NoTrustDomain /\ NoGetBundle /\ NoPause /\ NoResolver
    \/ InitTrustDomain

NextLive ==
    \/ GetByDigest
    \/ PageRequest
    \/ \E i \in 1..Len(input) : TaskStep(i)
    \/ GroupWait
    \/ TrustDomainRequest

\* the calling goroutine and the goroutines of the group keep running, and
\* every network call returns: a step that can be taken is taken
SpecLive == InitLive /\ [][NextLive]_vars /\ WF_vars(NextLive)
\* a remoteResolver and the calls of the function its Resolver returns
InitResolver ==
    /\ entry = "Resolver"
    /\ httpClient = "httpClient"
    /\ limit = 0 /\ pages = <<>>
    /\ url = Empty /\ attestations = <<>> /\ tries = 0
    /\ restLog = <<>> /\ rerr = NoErr
    /\ pc = "done"
    /\ NoFanOut
    /\ ret = NotReturned
    /\ faults = 0
    /\ NoTrustDomain /\ NoGetBundle /\ NoPause
    /\ rr = NewResolver /\ results = <<>>

NextResolver == ResolverCall

SpecResolver == InitResolver /\ [][NextResolver]_vars

----------------------------------------------------------------------------
(* Properties.                                                             *)

\* totalAvailable: the attestations over all pages of the listing
Total == Len(Flatten(pages))
\* the successful page requests, and the records they delivered, in order
OkLog == SelectSeq(restLog, LAMBDA e : e.res = "ok")
Served == Flatten([k \in 1..Len(OkLog) |-> pages[OkLog[k].url[3]]])
\* the requests made for the URL u
LogOf(u) == SelectSeq(restLog, LAMBDA e : e.url = u)
LastReq == restLog[Len(restLog)]
\* the GETs made so far
TotalGets == Sum(gets)
\* no response has failed so far in a call of GetByRepoAndDigest /
\* GetByOwnerAndDigest
NothingFailed == faults = MaxFaults
HasBundleOrURL(a) == a.Bundle # Empty \/ a.BundleURL # Empty

\* C1: for 0 < limit <= 1000 and a listing with at least one attestation,
\* the list getAttestations hands on and the list GetByRepoAndDigest /
\* GetByOwnerAndDigest return have exactly min(limit, totalAvailable)
\* elements; when no response fails and every record carries a bundle or a
\* bundle URL, the call does return such a list.
C1_ResultLength ==
    (limitIsValid(limit) /\ Total >= 1) =>
        /\ pc = "wait" => Len(input) = Min(limit, Total)
        /\ (pc = "done" /\ ret.err = NoErr) =>
              /\ ~ret.isNil
              /\ Len(ret.list) = Min(limit, Total)
        /\ (pc = "done" /\ NothingFailed
              /\ \A k \in 1..Len(pages) : \A j \in 1..Len(pages[k]) :
                    HasBundleOrURL(pages[k][j])) =>
              ret.err = NoErr

\* a listing of two pages that holds more than limit: the call returns limit
C1_Witness ==
    /\ pc = "done" /\ ret.err = NoErr
    /\ Len(pages) = 2 /\ Total > limit
    /\ Len(ret.list) = limit

\* C2: for limit <= 0 or limit > 1000 the call returns no list and the
\* input-validation error, and issues neither a page request nor a GET.
C2_InvalidLimit ==
    (limit <= 0 \/ limit > 1000) =>
        /\ restLog = <<>>
        /\ TotalGets = 0
        /\ pc \in {"call", "done"}
        /\ pc = "done" => ret = Returned(TRUE, <<>>, ErrLimit)

C2_Witness ==
    /\ pc = "done" /\ limit = 0
    /\ ret.isNil /\ ret.err = ErrLimit /\ restLog = <<>>

\* C3: the list getAttestations returns is the concatenation of the pages in
\* the order they were delivered, cut to its first limit records when it
\* holds more: nothing is reordered, duplicated or left out.
C3_FirstLimitInOrder ==
    /\ pc = "page" => attestations = Served
    /\ pc = "wait" =>
          input = IF Len(Served) > limit THEN SubSeq(Served, 1, limit) ELSE Served

\* the limit is crossed inside the second page
C3_Witness ==
    /\ pc = "wait"
    /\ Len(OkLog) = 2
    /\ Len(pages[1]) >= 1 /\ Len(pages[1]) < limit
    /\ Len(Served) > limit
    /\ input = SubSeq(Served, 1, limit)

\* the requests for the URL u were answered 5xx n times and nothing else
AllFailed5xx(u, n) ==
    /\ Len(LogOf(u)) = n
    /\ \A k \in 1..n : LogOf(u)[k].res = "5xx"
\* the requests for the URL u were answered 5xx twice and then with the page
TwiceFailedThenOk(u) ==
    /\ Len(LogOf(u)) >= 3
    /\ LogOf(u)[1].res = "5xx" /\ LogOf(u)[2].res = "5xx" /\ LogOf(u)[3].res = "ok"

\* C4: a page whose request fails twice with 5xx and then succeeds is
\* requested exactly 3 times and the fetch goes on with its records; a page
\* whose request fails with 5xx on every attempt is requested exactly 4 times
\* (never a fifth time), and the fetch then fails with the last error.
C4_RetryPerPage ==
    /\ \A k \in 1..Len(restLog) :
          LET u == restLog[k].url IN
          /\ Len(LogOf(u)) <= 4
          /\ TwiceFailedThenOk(u) => Len(LogOf(u)) = 3
          /\ AllFailed5xx(u, 4) =>
                /\ pc = "done"
                /\ ret = Returned(TRUE, <<>>, rerr)
                /\ Class(rerr) = "5xx"
    /\ (restLog # <<>> /\ TwiceFailedThenOk(LastReq.url)) =>
          /\ attestations = Served
          /\ \/ pc = "page" /\ url = NextLink(LastReq.url) /\ tries = 0
             \/ pc = "wait"
             \/ pc = "done" /\ ret.err = ErrNoAttestationsFound
    /\ (pc = "done" /\ restLog # <<>> /\ LastReq.res = "5xx") =>
          AllFailed5xx(LastReq.url, 4)

\* the first page is delivered at the third request, the second page fails
\* four times: 3 and 4 requests, and the call has failed
C4_Witness ==
    /\ pc = "done"
    /\ Len(restLog) = 7
    /\ TwiceFailedThenOk(restLog[1].url)
    /\ AllFailed5xx(LastReq.url, 4)
    /\ ret.err = rerr

\* every page of the listing has been delivered
AllPagesServed == Len(OkLog) = Len(pages)

\* C5: when every page is delivered and the pages hold no attestation, the
\* call returns a nil list and exactly ErrNoAttestationsFound, unwrapped, and
\* no GET is issued.
C5_NoAttestationsFound ==
    (limitIsValid(limit) /\ Total = 0) =>
        /\ TotalGets = 0
        /\ input = <<>>
        /\ (pc = "done" /\ AllPagesServed) =>
              ret = Returned(TRUE, <<>>, ErrNoAttestationsFound)

\* two empty pages
C5_Witness ==
    /\ pc = "done" /\ Len(pages) = 2 /\ Total = 0
    /\ Len(OkLog) = 2
    /\ ret.err = ErrNoAttestationsFound

\* C6: when the request for a page, the first or a later one, ends in an
\* error, the call returns a nil list and that error; the records of the
\* pages before are not returned and no record is resolved.
C6_PageErrorAborts ==
    (pc = "done" /\ restLog # <<>> /\ LastReq.res # "ok") =>
        /\ ret = Returned(TRUE, <<>>, rerr)
        /\ rerr # NoErr
        /\ input = <<>>
        /\ TotalGets = 0

\* the second page fails after the first delivered a record
C6_Witness ==
    /\ pc = "done" /\ restLog # <<>> /\ LastReq.res # "ok"
    /\ attestations # <<>>
    /\ ret.isNil /\ ret.err = rerr

HasURL(i) == input[i].BundleURL # Empty
\* the bundle record i resolves to
Expected(i) ==
    IF HasURL(i) THEN RemoteBundle(input[i].BundleURL) ELSE input[i].Bundle

\* C7: when every record of a batch resolves, the list returned is as long
\* as the input; a record without bundle URL causes no GET; a record with a
\* bundle URL whose first response is the stored bundle is resolved with
\* exactly one GET and no further one, so that a batch whose GETs are all
\* answered at once makes one GET per record with a bundle URL.
C7_LengthAndGets ==
    /\ (pc = "done" /\ \A i \in 1..Len(input) : terr[i] = NoErr) =>
          /\ ret.err = NoErr /\ ~ret.isNil
          /\ Len(ret.list) = Len(input)
    /\ \A i \in 1..Len(input) :
          /\ ~HasURL(i) => gets[i] = 0
          /\ (HasURL(i) /\ fails[i] = 0) =>
                /\ gets[i] <= 1
                /\ task[i] = "done" =>
                      gets[i] = 1 /\ terr[i] = NoErr /\ fetched[i] # Empty
    /\ (pc = "done" /\ \A i \in 1..Len(input) : fails[i] = 0) =>
          TotalGets = Cardinality({i \in 1..Len(input) : HasURL(i)})

\* one record with an inline bundle only, one with a bundle URL: one GET
C7_Witness ==
    /\ pc = "done" /\ ret.err = NoErr
    /\ Len(input) = 2 /\ Len(ret.list) = 2
    /\ input[1].Bundle # Empty /\ ~HasURL(1)
    /\ HasURL(2)
    /\ TotalGets = 1

\* C8: a slot that is written holds the bundle resolved from the record of
\* the same index, whatever the order in which the goroutines finish, and on
\* success the list returned holds, at every index, the bundle of that record.
C8_OutputOrder ==
    /\ \A i \in 1..Len(fetched) :
          fetched[i] # Empty =>
              /\ i <= Len(input)
              /\ task[i] = "done" /\ terr[i] = NoErr
              /\ fetched[i].Bundle = Expected(i)
    /\ (pc = "done" /\ ret.err = NoErr) =>
          /\ Len(ret.list) = Len(input)
          /\ \A i \in 1..Len(input) :
                ret.list[i] # Empty /\ ret.list[i].Bundle = Expected(i)

\* the second goroutine has written its slot while the first is retrying
C8_Witness ==
    /\ pc = "wait" /\ Len(input) = 2
    /\ task[1] = "retrying" /\ fetched[1] = Empty
    /\ task[2] = "done" /\ fetched[2] # Empty
    /\ fetched[2].Bundle = Expected(2)

\* C9: when the resolution of at least one record fails, the call returns a
\* nil list and a non-nil error, also when other records were resolved.
C9_NoPartialList ==
    (pc = "done" /\ \E i \in 1..Len(input) : terr[i] # NoErr) =>
        /\ ret.isNil /\ ret.list = <<>>
        /\ ret.err # NoErr

\* the first record is resolved, the second receives 5xx four times
C9_Witness ==
    /\ pc = "done" /\ Len(input) = 2
    /\ HasURL(1) /\ terr[1] = NoErr /\ fetched[1] # Empty
    /\ HasURL(2) /\ gets[2] = 4 /\ Is5xx(terr[2].status)
    /\ ret.isNil /\ ret.err = terr[2]

NoBundleMessage == "attestation has no bundle or bundle URL"

\* C10 as stated: a record with neither bundle nor bundle URL fails its
\* goroutine with the explicit error and without a GET, and the batch returns
\* a nil list with an error containing that message.
C10_Original ==
    \A i \in 1..Len(input) :
        ~HasBundleOrURL(input[i]) =>
            /\ gets[i] = 0
            /\ task[i] = "done" => terr[i] = ErrNoBundle
            /\ pc = "done" =>
                  ret.isNil /\ Contains(ret.err, NoBundleMessage)

\* C10 as amended: a record with neither bundle nor bundle URL fails its
\* goroutine with the explicit error and without a GET, and the batch returns
\* a nil list with a non-nil error; the error is the explicit one when no
\* other record fails, and else the explicit one or the error of another
\* record that failed.
C10_MissingBundleAndURL ==
    \A i \in 1..Len(input) :
        ~HasBundleOrURL(input[i]) =>
            /\ gets[i] = 0
            /\ fetched[i] = Empty
            /\ task[i] = "done" => terr[i] = ErrNoBundle
            /\ pc = "done" =>
                  /\ ret.isNil /\ ret.list = <<>>
                  /\ ret.err # NoErr
                  /\ \/ ret.err = ErrNoBundle
                     \/ \E j \in 1..Len(input) :
                          HasBundleOrURL(input[j]) /\ terr[j] # NoErr /\ ret.err = terr[j]
                  /\ (\A j \in 1..Len(input) :
                          HasBundleOrURL(input[j]) => terr[j] = NoErr) =>
                        ret.err = ErrNoBundle

\* the first record is resolved with a GET, the second has nothing
C10_Witness ==
    /\ pc = "done" /\ Len(input) = 2
    /\ HasURL(1) /\ terr[1] = NoErr /\ gets[1] >= 1
    /\ ~HasBundleOrURL(input[2]) /\ gets[2] = 0
    /\ ret.isNil /\ ret.err = ErrNoBundle

\* the GETs of a direct getBundle call were all answered with the class c
AllGets(c) == \A k \in 1..Len(getLog) : getLog[k].res = c
\* getBundle has returned a nil bundle and an error
BundleFailed == pc = "done" /\ ret.bundle = Empty /\ ret.err # NoErr

\* C11: in getBundle, a response with a non-5xx status whose body fails
\* decompression, parsing or bundle construction ends the call at once with a
\* nil bundle and an error (one GET when it is the first response), while 5xx
\* responses are retried until 4 GETs have been made.
C11_PermanentNotRetried ==
    /\ \A k \in 1..Len(getLog) :
          getLog[k].res = "invalid" =>
              /\ k = Len(getLog)
              /\ BundleFailed
    /\ (getLog # <<>> /\ getLog[1].res = "invalid") => Len(getLog) = 1
    /\ AllGets("5xx") =>
          /\ Len(getLog) <= maxRetries + 1
          /\ Len(getLog) < maxRetries + 1 => pc = "get"
          /\ Len(getLog) = maxRetries + 1 => BundleFailed

\* a 200 response whose body is not a bundle: one GET and the call has failed
C11_Witness ==
    /\ Len(getLog) = 1
    /\ getLog[1].res = "invalid" /\ getLog[1].status = 200
    /\ BundleFailed
    /\ Contains(ret.err, "failed to decompress with snappy")

RequestFailed == "request to fetch bundle from URL failed"

FailedThenBundle ==
    /\ getLog # <<>>
    /\ getLog[Len(getLog)].res = "bundle"
    /\ \A k \in 1..(Len(getLog) - 1) : getLog[k].res = "5xx"

\* C13: in getBundle, when the first k GETs (0 <= k <= 3) are answered 5xx and
\* GET k+1 delivers the stored bundle, the call returns that bundle and a nil
\* error after exactly k+1 GETs and makes no further GET.
C13_SuccessfulRetry ==
    /\ (AllGets("5xx") /\ Len(getLog) <= maxRetries) => pc = "get"
    /\ FailedThenBundle =>
          /\ Len(getLog) <= maxRetries + 1
          /\ pc = "done"
          /\ ret.bundle # Empty /\ ret.bundle = RemoteBundle(url)
          /\ ret.err = NoErr
    /\ \A k \in 1..Len(getLog) : getLog[k].res = "bundle" => k = Len(getLog)

\* three 5xx responses and the bundle at the fourth GET
C13_Witness ==
    /\ Len(getLog) = 4 /\ FailedThenBundle
    /\ pc = "done" /\ ret.bundle = RemoteBundle(url) /\ ret.err = NoErr

\* the page request k was answered with an error shouldRetry rejects
NonRetryable(k) == restLog[k].res \in {"4xx", "conn"}

\* C14: a page request that fails with an error that is not an HTTP error
\* with status 500..599 is the last request of the call: the call returns a
\* nil list and that error at once, and a page whose first request fails so
\* is requested exactly once.
C14_NonRetryableOnce ==
    \A k \in 1..Len(restLog) :
        NonRetryable(k) =>
            /\ k = Len(restLog)
            /\ pc = "done"
            /\ ~shouldRetry(rerr)
            /\ ret = Returned(TRUE, <<>>, rerr)
            /\ LogOf(restLog[k].url)[1].res # "5xx" => Len(LogOf(restLog[k].url)) = 1

\* the second page is refused with 404 after the first delivered a record
C14_Witness ==
    /\ pc = "done" /\ Len(restLog) = 2
    /\ restLog[1].res = "ok" /\ restLog[2].res = "4xx"
    /\ attestations # <<>>
    /\ Len(LogOf(LastReq.url)) = 1
    /\ ret.isNil /\ ret.err = HTTPError(404)

\* C15 as stated: a request error without HTTP status on a page request or
\* on the trust-domain request is retried like a 5xx response, so that the
\* error is propagated only after 4 attempts of that request.
C15_Original ==
    (pc = "done" /\ restLog # <<>> /\ LastReq.res = "conn") =>
        Len(LogOf(LastReq.url)) = maxRetries + 1

\* C15 as amended: a request error without HTTP status on a page request or
\* on the trust-domain request is not retried: it is the last request of the
\* call, which returns no result and that error; only a 5xx response is
\* retried, up to 4 attempts of the request.
C15_ConnectionNotRetried ==
    /\ \A k \in 1..Len(restLog) :
          restLog[k].res = "conn" =>
              /\ k = Len(restLog)
              /\ pc = "done"
              /\ rerr = RequestError /\ ret.err = rerr
              /\ IF entry = "GetTrustDomain"
                 THEN ret.domain = Empty
                 ELSE ret.isNil /\ ret.list = <<>>
    /\ (restLog # <<>> /\ restLog[1].res = "conn") => Len(restLog) = 1
    /\ \A k \in 1..Len(restLog) : Len(LogOf(restLog[k].url)) <= maxRetries + 1
    /\ (pc \in {"page", "meta"} /\ tries > 0) =>
          /\ LastReq.res = "5xx"
          /\ \A k \in 1..Len(LogOf(url)) : LogOf(url)[k].res = "5xx"
    /\ (pc = "done" /\ restLog # <<>> /\ LastReq.res = "5xx") =>
          AllFailed5xx(LastReq.url, maxRetries + 1)

\* the trust-domain request fails once without HTTP status: one request
C15_Witness ==
    /\ entry = "GetTrustDomain" /\ pc = "done"
    /\ Len(restLog) = 1 /\ LastReq.res = "conn"
    /\ ret.domain = Empty /\ ret.err = RequestError

\* the trust domain the server is configured with, empty when it has none
Configured == IF meta.present THEN meta.TrustDomain ELSE Empty

\* C16: when the trust-domain request succeeds, GetTrustDomain returns
\* exactly the trust domain of the response and a nil error; for a response
\* with an absent or empty trust domain that is the empty string and a nil
\* error.
C16_TrustDomainReturned ==
    (pc = "done" /\ LastReq.res = "ok") =>
        /\ ret.err = NoErr
        /\ ret.domain = Configured
        /\ (~meta.present \/ meta.TrustDomain = Empty) => ret.domain = Empty

\* the request succeeds at the third attempt and the response has no trust
\* domain
C16_Witness ==
    /\ pc = "done" /\ Len(restLog) = 3 /\ LastReq.res = "ok"
    /\ ~meta.present
    /\ ret.domain = Empty /\ ret.err = NoErr

\* C17: when the trust-domain request fails, GetTrustDomain returns the empty
\* string and the error, after exactly one request for an error that is not
\* 5xx and after exactly 4 requests for 5xx on every attempt; what a failed
\* attempt left in resp is not returned.
C17_TrustDomainError ==
    /\ Len(restLog) <= maxRetries + 1
    /\ (pc = "done" /\ LastReq.res # "ok") =>
          /\ ret.domain = Empty
          /\ ret.err = rerr /\ rerr # NoErr
          /\ LastReq.res = "5xx" => AllFailed5xx(url, maxRetries + 1)
    /\ (restLog # <<>> /\ restLog[1].res \in {"4xx", "conn"}) =>
          Len(restLog) = 1 /\ pc = "done"
    /\ (AllFailed5xx(url, Len(restLog)) /\ Len(restLog) <= maxRetries) => pc = "meta"

\* a failed request has left a value in resp, and the empty string is returned
C17_Witness ==
    /\ pc = "done" /\ Len(restLog) = 1 /\ LastReq.res = "conn"
    /\ resp # Empty
    /\ ret.domain = Empty /\ ret.err = RequestError

\* record i carries an inline bundle and a bundle URL
HasBoth(i) == input[i].Bundle # Empty /\ HasURL(i)

\* C18: for a record with an inline bundle and a bundle URL the URL wins:
\* the goroutine issues a GET for the URL and the resolved record holds the
\* fetched bundle, not the inline one; two such records whose GETs are
\* answered at once cause exactly two GETs.
C18_URLPrecedence ==
    /\ \A i \in 1..Len(input) :
          HasBoth(i) =>
              /\ task[i] # "ready" => gets[i] >= 1
              /\ fetched[i] # Empty =>
                    /\ fetched[i].Bundle = RemoteBundle(input[i].BundleURL)
                    /\ fetched[i].Bundle # input[i].Bundle
    /\ (pc = "done" /\ Len(input) = 2 /\ HasBoth(1) /\ HasBoth(2)
          /\ fails[1] = 0 /\ fails[2] = 0) =>
          /\ TotalGets = 2
          /\ ret.err = NoErr
          /\ \A i \in 1..2 : ret.list[i].Bundle = RemoteBundle(input[i].BundleURL)

\* two records with both fields, resolved with one GET each
C18_Witness ==
    /\ pc = "done" /\ Len(input) = 2
    /\ HasBoth(1) /\ HasBoth(2)
    /\ TotalGets = 2 /\ ret.err = NoErr
    /\ ret.list[1].Bundle = RemoteBundle(input[1].BundleURL)
    /\ ret.list[2].Bundle # input[2].Bundle

\* the URL of the first page request of a fetch with the given limit
ExpectedFirstURL ==
    <<IF entry = "GetByRepoAndDigest"
      THEN "repos/%s/attestations/%s"
      ELSE "orgs/%s/attestations/%s",
      Min(limit, 100),
      1>>

\* C19: for every valid limit the first page request goes to
\* repos/{repo}/attestations/{digest} or orgs/{owner}/attestations/{digest}
\* with per_page = min(limit, 100), a value in 1..100.
C19_FirstPageRequest ==
    (limit >= 1 /\ limit <= 1000) =>
        /\ pc # "call" => (pc = "page" \/ restLog # <<>>)
        /\ (pc = "page" /\ restLog = <<>>) => url = ExpectedFirstURL
        /\ restLog # <<>> =>
              /\ restLog[1].url = ExpectedFirstURL
              /\ restLog[1].url[2] \in 1..100

\* limit 1000 by owner: the first request asks for 100 per page
C19_Witness ==
    /\ entry = "GetByOwnerAndDigest" /\ limit = 1000
    /\ restLog # <<>>
    /\ restLog[1].url = <<"orgs/%s/attestations/%s", 100, 1>>

\* the 200 response that carries the bundle b stored under u
Serve(u) == [failed |-> FALSE, StatusCode |-> 200, Body |-> ValidBody(u)]

Resolved(k) ==
    /\ results[k].err = NoErr
    /\ ~results[k].remotes.isNil /\ Len(results[k].remotes.list) > 0
\* readRemotes failed in the call k
ReadFailed(k) == results[k].read /\ results[k].git.failed

\* C21: the function returned by remoteResolver.Resolver caches its outcome:
\* after a call that resolved a non-empty set of remotes every later call
\* returns the same remotes without calling readRemotes; after a call in which
\* readRemotes failed every later call returns that error and no remotes
\* without calling readRemotes, also when readRemotes would now succeed.
C21_ResolverCaches ==
    \A i \in 1..Len(results) : \A j \in (i + 1)..Len(results) :
        /\ Resolved(i) =>
              /\ results[j].remotes = results[i].remotes
              /\ results[j].err = NoErr
              /\ ~results[j].read
        /\ ReadFailed(i) =>
              /\ results[j].err = results[i].git.err
              /\ results[j].err = results[i].err
              /\ Len(results[j].remotes.list) = 0
              /\ ~results[j].read

\* readRemotes failed in the first call and would succeed in the second,
\* which returns the error of the first
C21_Witness ==
    /\ Len(results) = 2
    /\ ReadFailed(1)
    /\ ~results[2].git.failed /\ Len(results[2].git.remotes) > 0
    /\ results[2].err = results[1].err /\ ~results[2].read

\* the records the first k page requests delivered
ServedBy(k) ==
    Flatten([j \in 1..Len(SelectSeq(SubSeq(restLog, 1, k), LAMBDA e : e.res = "ok")) |->
                pages[SelectSeq(SubSeq(restLog, 1, k), LAMBDA e : e.res = "ok")[j].url[3]]])

\* C22: a page request is issued only while the continuation URL is not
\* empty and the accumulator holds fewer than limit records; after a response
\* with an empty continuation URL, or once the accumulator holds limit
\* records or more, no page request follows in that call.
C22_LoopCondition ==
    /\ pc = "page" => url # Empty /\ Len(attestations) < limit
    /\ \A k \in 1..Len(restLog) :
          /\ restLog[k].url # Empty
          /\ Len(ServedBy(k - 1)) < limit
          /\ (restLog[k].res = "ok"
                /\ (NextLink(restLog[k].url) = Empty \/ Len(ServedBy(k)) >= limit)) =>
                /\ k = Len(restLog)
                /\ pc # "page"

\* the first page fills the accumulator to limit and a second page exists:
\* the loop has ended after one request
C22_Witness ==
    /\ pc = "wait"
    /\ Len(restLog) = 1 /\ LastReq.res = "ok"
    /\ NextLink(LastReq.url) # Empty
    /\ Len(pages[2]) > 0
    /\ Len(attestations) >= limit

\* the URL the next page request asks for, by the requests made so far
CursorByLog ==
    IF restLog = <<>> THEN FirstURL(entry, limit)
    ELSE IF LastReq.res = "ok" THEN NextLink(LastReq.url)
    ELSE LastReq.url

\* C23: the pages are requested one after the other along the chain of
\* continuation URLs: a request for another URL than the one before is made
\* only after the one before has succeeded, and it asks for exactly the
\* continuation URL of that response; the one request the loop is about to
\* make is the one for the current cursor.
C23_CursorChain ==
    /\ \A k \in 1..(Len(restLog) - 1) :
          /\ restLog[k].res = "ok" => restLog[k + 1].url = NextLink(restLog[k].url)
          /\ restLog[k].res # "ok" => restLog[k + 1].url = restLog[k].url
          /\ restLog[k + 1].url # restLog[k].url => restLog[k].res = "ok"
    /\ pc = "page" => url = CursorByLog

\* the second page is requested after the first was delivered, fails once
\* and is requested again
C23_Witness ==
    /\ Len(restLog) = 3
    /\ restLog[1].res = "ok" /\ restLog[2].res = "5xx" /\ restLog[3].res = "ok"
    /\ restLog[2].url = NextLink(restLog[1].url)
    /\ restLog[3].url = restLog[2].url
    /\ restLog[2].url # restLog[1].url

\* C24: an attempt of a page request that fails leaves the cursor and the
\* accumulator as they were, so that a retry asks for the same URL; the
\* attempt that succeeds appends the records of its page once, so that the
\* accumulator is always what the successful requests delivered.
C24_FailedAttemptFrame ==
    [][Len(restLog') = Len(restLog) + 1 =>
          LET req == restLog'[Len(restLog')] IN
          /\ req.url = url
          /\ req.res # "ok" =>
                /\ url' = url
                /\ attestations' = attestations
                /\ pc' = "page" => tries' = tries + 1
          /\ req.res = "ok" =>
                /\ attestations' = attestations \o pages[url[3]]
                /\ Len(attestations') = Len(attestations) + Len(pages[url[3]])
          /\ attestations' = Served']_vars

\* a page of two records is delivered at the third attempt: the accumulator
\* holds its two records, once
C24_Witness ==
    /\ Len(restLog) = 3
    /\ restLog[1].res = "5xx" /\ restLog[2].res = "5xx" /\ restLog[3].res = "ok"
    /\ restLog[1].url = restLog[3].url /\ restLog[2].url = restLog[3].url
    /\ Len(pages[1]) = 2
    /\ attestations = pages[1]

\* the first k GETs of the direct getBundle call were answered 5xx and GET
\* number k + 1 with a readable body that is not a bundle
FailedThenInvalid(k) ==
    /\ Len(getLog) >= k + 1
    /\ \A j \in 1..k : getLog[j].res = "5xx"
    /\ getLog[k + 1].res = "invalid"

\* C25: when the first k GETs of getBundle (1 <= k <= 3) are answered 5xx
\* and GET number k + 1 delivers a body that cannot be decompressed, parsed
\* or made a bundle, getBundle has returned that error and no bundle after
\* exactly k + 1 GETs.
C25_PermanentMidRetry ==
    \A k \in 1..maxRetries :
        FailedThenInvalid(k) =>
            /\ Len(getLog) = k + 1
            /\ tries = k
            /\ pc = "done"
            /\ ret.bundle = Empty
            /\ \/ Contains(ret.err, "failed to decompress with snappy")
               \/ Contains(ret.err, "failed to unmarshal to bundle")
               \/ Contains(ret.err, "failed to create new bundle")

\* two 5xx answers, then bytes that are not snappy: three GETs of four
C25_Witness ==
    /\ FailedThenInvalid(2)
    /\ pc = "done"
    /\ Len(getLog) = 3
    /\ Contains(ret.err, "failed to decompress with snappy")

\* the pauses made so far by the operation of the given kind and id
PausesOf(kind, id) == {p \in pauses : p.kind = kind /\ p.id = id}
\* the attempts an operation may still make: one while it is being retried
Pending(retrying) == IF retrying THEN 0 ELSE 1
\* the pauses after n attempts of an operation
PausesAfter(n, retrying) == IF n = 0 THEN 0 ELSE n - Pending(retrying)

\* C26: every pause between two attempts of a page request, of a bundle GET
\* and of the trust-domain request lasts getAttestationRetryInterval (200 ms),
\* whatever the attempt; a pause follows a retryable failure only and is
\* followed by another attempt, so an operation that ended after n attempts
\* has paused n - 1 times, and one that is about to make attempt n + 1 has
\* paused n times.
C26_ConstantPause ==
    /\ \A p \in pauses :
          /\ p.d = getAttestationRetryInterval
          /\ p.d = 200
          /\ p.n \in 1..maxRetries
    /\ \A k \in 1..Len(restLog) :
          LET u == restLog[k].url
              kind == IF entry = "GetTrustDomain" THEN "meta" ELSE "page"
              id == IF entry = "GetTrustDomain" THEN 0 ELSE u[3]
              retrying == pc \in {"page", "meta"} /\ url = u
          IN  /\ Cardinality(PausesOf(kind, id)) = PausesAfter(Len(LogOf(u)), retrying)
              /\ \A p \in PausesOf(kind, id) : LogOf(u)[p.n].res = "5xx"
    /\ LET retrying == pc = "get"
       IN  /\ Cardinality(PausesOf("get", 0)) = PausesAfter(Len(getLog), retrying)
           /\ \A p \in PausesOf("get", 0) :
                 getLog[p.n].res \in {"conn", "5xx", "unreadable"}
    /\ \A i \in 1..Len(input) :
          Cardinality(PausesOf("task", i)) = PausesAfter(gets[i], task[i] = "retrying")
    /\ Cardinality(pauses) <= Len(restLog) + Len(getLog) + Sum(gets)

\* the second page was requested four times and the call has failed: three
\* pauses of 200 ms, none after the last attempt
C26_Witness ==
    /\ pc = "done"
    /\ Len(restLog) = 5
    /\ AllFailed5xx(LastReq.url, 4)
    /\ Cardinality(PausesOf("page", 2)) = 3
    /\ Cardinality(pauses) = 3
    /\ \A p \in pauses : p.d = 200

\* goroutine i has come to its end: with its slot written, or with the error
\* of a record that has nothing, of a permanent failure, or of a fourth GET
Finished(i) ==
    /\ task[i] = "done"
    /\ HasURL(i) => gets[i] >= 1
    /\ terr[i] = NoErr => fetched[i] # Empty
    /\ (terr[i] # NoErr /\ fails[i] = gets[i]
          /\ ~Contains(terr[i], "failed to decompress with snappy")
          /\ ~Contains(terr[i], "failed to unmarshal to bundle")
          /\ ~Contains(terr[i], "failed to create new bundle")
          /\ HasURL(i)) => gets[i] = maxRetries + 1

\* C27: fetchBundleFromAttestations returns only when every goroutine it
\* started has returned; while it waits, also after an error was recorded, a
\* goroutine that has not returned can take its next step (its GET, its
\* retry), and no step of the call returns as long as one is left.
C27_WaitsForAll ==
    /\ [](/\ pc = "done" => \A i \in 1..Len(input) : Finished(i)
          /\ pc = "wait" => ret = NotReturned
          /\ \A i \in 1..Len(input) :
                (pc = "wait" /\ task[i] # "done") => ENABLED TaskStep(i))
    /\ [][(pc = "wait" /\ \E i \in 1..Len(input) : task[i] # "done") =>
             pc' = "wait"]_vars

\* the first record has nothing and its goroutine has failed, the second
\* goroutine made its four GETs all the same and failed after it
C27_Witness ==
    /\ pc = "done" /\ Len(input) = 2
    /\ terr[1] = ErrNoBundle /\ gerr = ErrNoBundle
    /\ gets[2] = maxRetries + 1 /\ fails[2] = maxRetries + 1
    /\ terr[2] # NoErr
    /\ ret.err = ErrNoBundle

\* the requests made so far are within the attempts of the operations that
\* made them: maxRetries + 1 for the metadata, for every page and for every
\* record
RequestsBounded ==
    /\ \A k \in 1..Len(restLog) : Len(LogOf(restLog[k].url)) <= maxRetries + 1
    /\ \A i \in 1..Len(input) : gets[i] <= maxRetries + 1
    /\ Len(restLog) <= (maxRetries + 1) * (IF entry = "GetTrustDomain" THEN 1 ELSE Len(pages))
    /\ Len(input) <= Total

\* C28: a call of GetByRepoAndDigest, GetByOwnerAndDigest or GetTrustDomain
\* whose network calls all return comes to its end with a result or an
\* error, having made no more than maxRetries + 1 requests for the
\* metadata, for each page and for each record.
C28_Terminates ==
    /\ <>(pc = "done" /\ ret # NotReturned)
    /\ []RequestsBounded

\* the only page is delivered at the fourth request and the GET for its
\* record fails four times: the call has ended with the error
C28_Witness ==
    /\ pc = "done"
    /\ Len(restLog) = maxRetries + 1 /\ LastReq.res = "ok"
    /\ Len(input) = 1 /\ gets[1] = maxRetries + 1
    /\ ret.err # NoErr

\* C29: when goroutines of fetchBundleFromAttestations fail, the group
\* records the error of the one that fails first and keeps it whatever fails
\* later; the function returns that one error, which is the error of a
\* goroutine that failed in this call.
C29_FirstErrorWins ==
    /\ [](/\ gerr # NoErr <=> \E i \in 1..Len(input) : terr[i] # NoErr
          /\ gerr # NoErr => \E i \in 1..Len(input) : task[i] = "done" /\ terr[i] = gerr
          /\ (pc = "done" /\ gerr # NoErr) => ret = Returned(TRUE, <<>>, gerr)
          /\ (pc = "done" /\ gerr = NoErr) => ret.err = NoErr)
    /\ [][/\ gerr # NoErr => gerr' = gerr
          /\ (gerr = NoErr /\ gerr' # NoErr) =>
                \E i \in 1..Len(input) :
                   /\ task[i] # "done" /\ task'[i] = "done"
                   /\ terr[i] = NoErr /\ terr'[i] = gerr'
                   /\ \A j \in 1..Len(input) : terr[j] = NoErr]_vars

\* both goroutines have failed, with different errors, the second one
\* first: its error is returned
C29_Witness ==
    /\ pc = "done" /\ Len(input) = 2
    /\ terr[1] # NoErr /\ terr[2] # NoErr
    /\ terr[1] # terr[2]
    /\ gerr = terr[2]
    /\ ret.err = terr[2]

\* the descriptions the errors of getBundle carry, by the phase that failed
FetchDescriptions ==
    {"request to fetch bundle from URL failed", "attestation bundle returned status code"}
ReadDescriptions == {"failed to read blob storage response body"}
DecodeDescriptions ==
    {"failed to decompress with snappy", "failed to unmarshal to bundle",
     "failed to create new bundle"}
\* the description getByURL and every goroutine put in front
FetchBundleMsg == "failed to fetch bundle with URL"
DescribedBy(err, D) == \E m \in D : Contains(err, m)
\* the call has ended with the failure of a page request
PageFailed == pc = "done" /\ restLog # <<>> /\ LastReq.res # "ok"
\* the call has ended with the failure of a goroutine that made a GET
GetFailed ==
    /\ pc = "done" /\ gerr # NoErr
    /\ gerr # ErrNoBundle

\* C30 as stated: the error of a failed page request, of a failed bundle
\* fetch and of a failed decoding each come back wrapped with a description
\* of their phase, distinct from the descriptions of the other two.
C30_Original ==
    /\ PageFailed =>
          /\ Len(ret.err.chain) > Len(rerr.chain)
          /\ ~DescribedBy(ret.err, FetchDescriptions \cup DecodeDescriptions)
    /\ GetFailed =>
          \/ DescribedBy(ret.err, FetchDescriptions \cup ReadDescriptions)
                /\ ~DescribedBy(ret.err, DecodeDescriptions)
          \/ DescribedBy(ret.err, DecodeDescriptions)
                /\ ~DescribedBy(ret.err, FetchDescriptions \cup ReadDescriptions)

\* C30: the error of a failed bundle fetch and of a failed decoding come
\* back wrapped with "failed to fetch bundle with URL" around a description
\* of their phase, distinct from the descriptions of the other phase; the
\* error of a failed page request comes back as RESTWithNext returned it,
\* with no description added, and carries none of the descriptions of the
\* other two phases.
C30_PhaseDescriptions ==
    /\ PageFailed =>
          /\ ret.err = rerr
          /\ ~Contains(ret.err, FetchBundleMsg)
          /\ ~DescribedBy(ret.err, FetchDescriptions \cup ReadDescriptions
                                      \cup DecodeDescriptions)
    /\ (pc = "done" /\ gerr # NoErr) =>
          /\ ret.err = Wrap(FetchBundleMsg, gerr)
          /\ ~PageFailed
    /\ GetFailed =>
          /\ gerr.chain[1] = FetchBundleMsg
          /\ \/ /\ DescribedBy(ret.err, FetchDescriptions \cup ReadDescriptions)
                /\ ~DescribedBy(ret.err, DecodeDescriptions)
                /\ \E i \in 1..Len(input) : terr[i] = gerr /\ gets[i] = maxRetries + 1
             \/ /\ DescribedBy(ret.err, DecodeDescriptions)
                /\ ~DescribedBy(ret.err, FetchDescriptions \cup ReadDescriptions)
    /\ (pc = "done" /\ ret.err # NoErr) =>
          \/ PageFailed
          \/ gerr # NoErr
          \/ ret.err \in {ErrLimit, ErrNoAttestationsFound}

\* the request for the second page has failed with a 5xx status at each of
\* its four attempts: the call returns the api.HTTPError itself
C30_Witness ==
    /\ PageFailed
    /\ Len(restLog) = maxRetries + 2
    /\ Class(rerr) = "5xx"
    /\ ret.err = rerr
    /\ ret.err.chain = <<"HTTPError">>

\* C31: when fetchBundleFromAttestations succeeds, every element of the
\* list it returns is a record allocated by the call, distinct from every
\* input record and from the other elements, that holds a bundle and an empty
\* bundle URL; no element is nil.
C31_ResolvedForm ==
    (pc = "done" /\ ret.err = NoErr) =>
        /\ ~ret.isNil
        /\ Len(ret.list) = Len(input)
        /\ \A i \in 1..Len(ret.list) :
              /\ ret.list[i] # Empty
              /\ ret.list[i].Bundle # Empty
              /\ ret.list[i].BundleURL = Empty
              /\ \A j \in 1..Len(input) : ret.list[i].id # input[j].id
              /\ \A j \in 1..Len(ret.list) : j # i => ret.list[j].id # ret.list[i].id

\* a record with a bundle URL and a record with an inline bundle only, both
\* resolved
C31_Witness ==
    /\ pc = "done" /\ ret.err = NoErr
    /\ Len(ret.list) = 2
    /\ input[1].BundleURL # Empty /\ gets[1] >= 1
    /\ input[2].BundleURL = Empty /\ input[2].Bundle # Empty
    /\ ret.list[1].Bundle = RemoteBundle(input[1].BundleURL)
    /\ ret.list[2].Bundle = input[2].Bundle

\* C32: a slot of the output is written by the goroutine of the same index
\* only: once, when that goroutine ends without error, with the bundle its
\* own input record resolves to; a goroutine that fails leaves its slot, and
\* every other slot, as it was.
C32_DisjointSlots ==
    /\ [](\A i \in 1..Len(fetched) :
            /\ fetched[i] # Empty =>
                  /\ task[i] = "done" /\ terr[i] = NoErr
                  /\ fetched[i] = NewAttestation(i, Expected(i))
            /\ (task[i] = "done" /\ terr[i] # NoErr) => fetched[i] = Empty)
    /\ [][\A i \in 1..Len(fetched) :
            fetched'[i] # fetched[i] =>
               /\ fetched[i] = Empty
               /\ task[i] # "done" /\ task'[i] = "done" /\ terr'[i] = NoErr
               /\ \A j \in 1..Len(fetched) : j # i => fetched'[j] = fetched[j]]_vars

\* the first goroutine has failed after its GETs and has written nothing,
\* the second has written the second slot
C32_Witness ==
    /\ Len(input) = 2
    /\ task[1] = "done" /\ terr[1] # NoErr /\ gets[1] >= 1
    /\ fetched[1] = Empty
    /\ fetched[2] = NewAttestation(2, Expected(2))

\* C33: no step of fetchBundleFromAttestations, of a goroutine or of the
\* return, changes the input list or a record of it, and no record of the
\* output is a record of the input, whether the call succeeds or fails.
C33_InputUnchanged ==
    /\ [](\A i \in 1..Len(fetched) : \A j \in 1..Len(input) :
             fetched[i] # Empty => fetched[i].id # input[j].id)
    /\ [][input' = input]_vars

\* a failed call: the first record, with an inline bundle and a bundle URL,
\* was resolved, the second failed; both records are as they were handed in
C33_Witness ==
    /\ pc = "done" /\ ret.err # NoErr
    /\ Len(input) = 2
    /\ input[1] = Attestation(<<"arg", 1>>, "both")
    /\ input[2] = Attestation(<<"arg", 2>>, "url")
    /\ fetched[1] # Empty
    /\ terr[2] # NoErr /\ gets[2] >= 1

\* the requests for the URL of request k among the first k requests
AttemptOf(k) ==
    Len(SelectSeq(SubSeq(restLog, 1, k), LAMBDA e : e.url = restLog[k].url))
\* the page requests that were answered with an error
FailedLog == SelectSeq(restLog, LAMBDA e : e.res # "ok")
\* the pages asked for so far
PagesAsked == {restLog[k].url : k \in 1..Len(restLog)}

\* C34: every page request has its own four attempts: a 5xx answer to an
\* attempt that is not the fourth for its page is followed by another
\* attempt, whatever the requests for the pages before needed; a fetch that
\* asked for p pages has made no more than 4 * p requests; and a fetch whose
\* requests for two pages each fail once with 5xx and then succeed has read
\* both pages with exactly two failed requests and goes on without error.
C34_BudgetPerPage ==
    /\ pc = "page" => tries = Len(LogOf(url))
    /\ \A k \in 1..Len(restLog) :
          /\ AttemptOf(k) <= maxRetries + 1
          /\ (restLog[k].res = "5xx" /\ AttemptOf(k) <= maxRetries) =>
                \/ k < Len(restLog) /\ restLog[k + 1].url = restLog[k].url
                \/ k = Len(restLog) /\ pc = "page" /\ url = restLog[k].url
    /\ Len(restLog) <= (maxRetries + 1) * Cardinality(PagesAsked)
    /\ (/\ Len(restLog) = 4
        /\ restLog[1].res = "5xx" /\ restLog[2].res = "ok"
        /\ restLog[3].res = "5xx" /\ restLog[4].res = "ok"
        /\ restLog[3].url # restLog[1].url) =>
          /\ Len(FailedLog) = 2
          /\ Len(OkLog) = 2
          /\ attestations = Served
          /\ \/ pc = "wait"
             \/ pc = "done" /\ ret.err = ErrNoAttestationsFound
             \/ pc = "page" /\ Len(pages) > 2 /\ tries = 0

\* the first page needed all four attempts, and so did the second: eight
\* requests, and the listing has been read
C34_Witness ==
    /\ pc = "wait"
    /\ Len(restLog) = 2 * (maxRetries + 1)
    /\ Len(OkLog) = 2
    /\ restLog[maxRetries + 1].res = "ok"
    /\ LastReq.res = "ok"
    /\ Len(FailedLog) = 2 * maxRetries

\* C35: in a call of GetByRepoAndDigest or GetByOwnerAndDigest every page
\* request comes before every GET: a GET is made only after the loop over the
\* pages has ended with a list, and once a GET was made no page request
\* follows.
C35_PhasesInOrder ==
    /\ [](/\ pc \in {"call", "page"} => TotalGets = 0 /\ input = <<>>
          /\ TotalGets > 0 =>
                /\ pc \in {"wait", "done"}
                /\ restLog # <<>> /\ LastReq.res = "ok"
                /\ ~keepFetching(url, attestations, limit))
    /\ [][/\ TotalGets' > TotalGets => pc = "wait" /\ restLog' = restLog
          /\ Len(restLog') > Len(restLog) =>
                pc = "page" /\ TotalGets = 0 /\ TotalGets' = 0]_vars

\* two pages were requested, the first of them twice, and then the records
\* of both were fetched
C35_Witness ==
    /\ pc = "done"
    /\ Len(restLog) = 3 /\ Len(OkLog) = 2
    /\ Len(input) = 2
    /\ gets[1] >= 1 /\ gets[2] >= 1

\* the records of the batch that carry a bundle URL
URLBacked == {i \in 1..Len(input) : HasURL(i)}

\* C36: in a call of fetchBundleFromAttestations a record with a bundle URL
\* causes at most 4 GETs, and at least one by the time its goroutine has
\* ended; a record without bundle URL causes none; so the GETs of the call
\* are at most 4 times the records with a bundle URL, in every order of the
\* goroutines' steps and whether the call succeeds or fails.
C36_GetsPerRecord ==
    /\ \A i \in 1..Len(input) :
          /\ HasURL(i) => gets[i] <= maxRetries + 1
          /\ (HasURL(i) /\ task[i] = "done") => gets[i] >= 1
          /\ ~HasURL(i) => gets[i] = 0
    /\ TotalGets <= 4 * Cardinality(URLBacked)
    /\ pc = "done" => \A i \in URLBacked : gets[i] \in 1..4

\* one record was fetched at the first GET, the other failed at each of its
\* four GETs
C36_Witness ==
    /\ pc = "done" /\ Len(input) = 2
    /\ URLBacked = {1, 2}
    /\ gets[1] = 1 /\ terr[1] = NoErr
    /\ gets[2] = 4 /\ terr[2] # NoErr
    /\ TotalGets = 5

\* C37: when getBundle has returned, the body of every response it received
\* is closed, whatever the attempt and the status, the 5xx responses that
\* were retried included.
C37_BodiesClosed ==
    pc = "done" =>
        \A k \in 1..Len(getLog) :
            getLog[k].res # "conn" => getLog[k].body = "closed"

\* getBundle has returned the bundle after a 5xx response whose body was
\* left open
C37_Witness ==
    /\ pc = "done" /\ ret.err = NoErr /\ ret.bundle # Empty
    /\ Len(getLog) = 2
    /\ getLog[1].res = "5xx" /\ getLog[1].body = "open"
    /\ getLog[2].res = "bundle" /\ getLog[2].body = "closed"

====
